---- MODULE Spec2Model ----
(***************************************************************************)
(* Model of builds/validate_packages.py: the script reads a list of        *)
(* package names, asks the PyPI JSON endpoint about each one in turn and   *)
(* writes the names that have more than one release to a text file.        *)
(*                                                                         *)
(* Strings are sequences of one-character strings, so that splitlines,     *)
(* format and join are computed character by character.                    *)
(***************************************************************************)
EXTENDS Naturals, Sequences, FiniteSets

VARIABLES
    text,            \* content of files/pip_packages.txt as read_text returns it
    outfile,         \* builds/valid_pip_packages.txt: [exists, content]
    outfile0,        \* the output file as it was when the first run started
    pc,              \* position of the module body
    packages,        \* the module global `packages`
    valid_packages,  \* the module global `valid_packages`
    i,               \* index of `pkg` in the for loop (1-based)
    ret,             \* value returned by the pending validate_package call
    printed,         \* lines printed to the console, in order
    requests,        \* URIs handed to urlopen by this run, in order
    responses,       \* what the registry answered to each of them, in order
    nreads,          \* number of read_text calls of this run
    nwrites,         \* number of write_text calls of this run
    run,             \* ordinal of the current run of the script
    earlier          \* how the previous run ended, and every lookup made before this run

vars == <<text, outfile, outfile0, pc, packages, valid_packages, i, ret,
          printed, requests, responses, nreads, nwrites, run, earlier>>

----------------------------------------------------------------------------
(* Bounds of the model. *)

MaxLen == 4        \* characters in the input file
MaxReleases == 3   \* entries under "releases" in a registry record
MaxRuns == 2       \* runs of the script in SpecRerun

----------------------------------------------------------------------------
(* Characters and strings. *)

Chars == {"a", "b", " ", "\n"}

\* str.splitlines line boundaries present in the alphabet
LineBoundary == {"\n"}

\* characters str.strip would remove
Whitespace == {" ", "\n"}

Last(s) == s[Len(s)]

RECURSIVE StringsOfLen(_)
StringsOfLen(n) ==
    IF n = 0 THEN {<< >>}
    ELSE {Append(s, c) : s \in StringsOfLen(n - 1), c \in Chars}

Texts == UNION {StringsOfLen(n) : n \in 0..MaxLen}

\* str.splitlines(): cut at every line boundary, boundary dropped; the piece
\* after the last boundary is a line only when it is not empty.
RECURSIVE SplitFrom(_, _, _, _)
SplitFrom(s, k, cur, acc) ==
    IF k > Len(s)
    THEN IF cur = << >> THEN acc ELSE Append(acc, cur)
    ELSE IF s[k] \in LineBoundary
         THEN SplitFrom(s, k + 1, << >>, Append(acc, cur))
         ELSE SplitFrom(s, k + 1, Append(cur, s[k]), acc)

\* what str.split("\n") would give: an empty text is one empty line
SplitKeepLast(s) ==
    IF s = << >> THEN << << >> >> ELSE SplitFrom(s, 1, << >>, << >>)

RECURSIVE StripLeft(_)
StripLeft(s) ==
    IF s # << >> /\ Head(s) \in Whitespace THEN StripLeft(Tail(s)) ELSE s

RECURSIVE StripRight(_)
StripRight(s) ==
    IF s # << >> /\ s[Len(s)] \in Whitespace
    THEN StripRight(SubSeq(s, 1, Len(s) - 1))
    ELSE s

\* str.strip()
Trim(s) == StripLeft(StripRight(s))

\* splitlines followed by a strip of every line
SplitLinesTrimmed(s) ==
    LET ls == SplitFrom(s, 1, << >>, << >>)
    IN  [j \in 1..Len(ls) |-> Trim(ls[j])]

SplitLines(s) == SplitFrom(s, 1, << >>, << >>)

\* '\n'.join(names)
RECURSIVE Join(_)
Join(names) ==
    IF names = << >> THEN << >>
    ELSE IF Len(names) = 1 THEN names[1]
    ELSE names[1] \o <<"\n">> \o Join(Tail(names))

\* "https://pypi.org/pypi/{0}/json".format(package_name)
JsonUri(package_name) ==
    <<"https://pypi.org/pypi/">> \o package_name \o <<"/json">>

----------------------------------------------------------------------------
(* What one urlopen + read + json.loads can come to. *)

\* characters of the alphabet http.client refuses in a request path
UrlDisallowed == {" ", "\n"}

\* urlopen raises InvalidURL before anything is sent
UrlopenRefuses(uri) == \E k \in 1..Len(uri) : uri[k] \in UrlDisallowed

HttpStatus == {404, 500}

Record(n) == [kind |-> "record", n |-> n]          \* JSON object, n releases
HttpError(code) == [kind |-> "http_error", n |-> code]
UrlError == [kind |-> "url_error", n |-> 0]        \* host unreachable
BadJson == [kind |-> "bad_json", n |-> 0]          \* body is not JSON
NoReleases == [kind |-> "no_releases", n |-> 0]    \* JSON object without "releases"
InvalidUrl == [kind |-> "invalid_url", n |-> 0]    \* urlopen refused the URI

Outcomes ==
    {Record(n) : n \in 0..MaxReleases}
        \cup {HttpError(c) : c \in HttpStatus}
        \cup {UrlError, BadJson, NoReleases, InvalidUrl}

\* the outcomes a lookup of uri can have: a refused URI never reaches the
\* registry, any other is answered as the registry and the network please
CanAnswer(uri, o) == (o = InvalidUrl) <=> UrlopenRefuses(uri)

\* the exception _get_pypi_package_data raises on outcome o, "none" if it returns
FetchRaises(o) ==
    CASE o.kind = "http_error" -> "HTTPError"
      [] o.kind = "url_error"  -> "URLError"
      [] o.kind = "bad_json"   -> "JSONDecodeError"
      [] o.kind = "invalid_url" -> "InvalidURL"
      [] OTHER                 -> "none"

\* validate_package with `>= 1` in place of `> 1`
ValidatePackageAtLeastOne(o) ==
    IF FetchRaises(o) = "HTTPError" THEN "false"
    ELSE IF FetchRaises(o) # "none" \/ o.kind = "no_releases" THEN "raise"
    ELSE IF o.n >= 1 THEN "true" ELSE "false"

\* validate_package without the try/except
ValidatePackageNoExcept(o) ==
    IF FetchRaises(o) # "none" \/ o.kind = "no_releases" THEN "raise"
    ELSE IF o.n > 1 THEN "true" ELSE "false"

\* validate_package that recovers from status 404 only
ValidatePackageOnly404(o) ==
    IF FetchRaises(o) = "HTTPError" /\ o.n = 404 THEN "false"
    ELSE IF FetchRaises(o) # "none" \/ o.kind = "no_releases" THEN "raise"
    ELSE IF o.n > 1 THEN "true" ELSE "false"

\* validate_package: "true"/"false" for the value returned, "raise" when an
\* exception leaves the function
ValidatePackage(o) ==
    IF FetchRaises(o) = "HTTPError" THEN "false"
    ELSE IF FetchRaises(o) # "none" THEN "raise"
    ELSE IF o.kind = "no_releases" THEN "raise"
    ELSE IF o.n > 1 THEN "true" ELSE "false"

----------------------------------------------------------------------------
(* The run. *)

OutFiles == {[exists |-> FALSE, content |-> << >>],
             [exists |-> TRUE, content |-> <<"b">>]}

NoEarlier == [pc |-> "none", outfile |-> [exists |-> FALSE, content |-> << >>],
              requests |-> << >>, responses |-> << >>]

Init ==
    /\ text \in Texts
    /\ outfile \in OutFiles
    /\ outfile0 = outfile
    /\ pc = "start"
    /\ packages = << >>
    /\ valid_packages = << >>
    /\ i = 1
    /\ ret = FALSE
    /\ printed = << >>
    /\ requests = << >>
    /\ responses = << >>
    /\ nreads = 0
    /\ nwrites = 0
    /\ run = 1
    /\ earlier = NoEarlier

\* packages = ....read_text(encoding="utf-8").splitlines(); valid_packages = []
ReadInput ==
    /\ pc = "start"
    /\ packages' = SplitLines(text)
    /\ valid_packages' = << >>
    /\ i' = 1
    /\ nreads' = nreads + 1
    /\ pc' = "loop"
    /\ UNCHANGED <<text, outfile, outfile0, ret, printed, requests, responses,
                   nwrites, run, earlier>>

\* the loop asking for the names from the last line to the first
FetchStartReversed ==
    /\ pc = "loop"
    /\ i <= Len(packages)
    /\ requests' = Append(requests, JsonUri(packages[Len(packages) + 1 - i]))
    /\ pc' = "fetching"
    /\ UNCHANGED <<text, outfile, outfile0, packages, valid_packages, i, ret,
                   printed, responses, nreads, nwrites, run, earlier>>

\* for pkg in packages: validate_package(pkg) -> urlopen(json_uri)
FetchStart ==
    /\ pc = "loop"
    /\ i <= Len(packages)
    /\ requests' = Append(requests, JsonUri(packages[i]))
    /\ pc' = "fetching"
    /\ UNCHANGED <<text, outfile, outfile0, packages, valid_packages, i, ret,
                   printed, responses, nreads, nwrites, run, earlier>>

\* the lookup ends with outcome o and validate_package returns or raises
Returned(o) ==
    /\ responses' = Append(responses, o)
    /\ IF ValidatePackage(o) = "raise"
       THEN pc' = "aborted" /\ ret' = FALSE
       ELSE pc' = "validated" /\ ret' = (ValidatePackage(o) = "true")
    /\ UNCHANGED <<text, outfile, outfile0, packages, valid_packages, i,
                   printed, requests, nreads, nwrites, run, earlier>>

\* the lookup ends in any way it can, each lookup on its own
FetchReturn ==
    /\ pc = "fetching"
    /\ \E o \in Outcomes : CanAnswer(Last(requests), o) /\ Returned(o)

\* print(pkg)
PrintPkg ==
    /\ pc = "validated"
    /\ ret
    /\ printed' = Append(printed, packages[i])
    /\ pc' = "printed"
    /\ UNCHANGED <<text, outfile, outfile0, packages, valid_packages, i, ret,
                   requests, responses, nreads, nwrites, run, earlier>>

\* valid_packages.insert(0, pkg)
AppendValidFront ==
    /\ pc = "printed"
    /\ valid_packages' = <<packages[i]>> \o valid_packages
    /\ i' = i + 1
    /\ pc' = "loop"
    /\ UNCHANGED <<text, outfile, outfile0, packages, ret, printed, requests,
                   responses, nreads, nwrites, run, earlier>>

\* the loop body writing the file each time a name is accepted
AppendValidWriting ==
    /\ pc = "printed"
    /\ valid_packages' = Append(valid_packages, packages[i])
    /\ outfile' = [exists |-> TRUE, content |-> Join(valid_packages')]
    /\ nwrites' = nwrites + 1
    /\ i' = i + 1
    /\ pc' = "loop"
    /\ UNCHANGED <<text, outfile0, packages, ret, printed, requests,
                   responses, nreads, run, earlier>>

\* valid_packages.append(pkg), then on to the next pkg
AppendValid ==
    /\ pc = "printed"
    /\ valid_packages' = Append(valid_packages, packages[i])
    /\ i' = i + 1
    /\ pc' = "loop"
    /\ UNCHANGED <<text, outfile, outfile0, packages, ret, printed, requests,
                   responses, nreads, nwrites, run, earlier>>

\* a loop that prints every name it has looked up
SkipPrinting ==
    /\ pc = "validated"
    /\ ~ret
    /\ printed' = Append(printed, packages[i])
    /\ i' = i + 1
    /\ pc' = "loop"
    /\ UNCHANGED <<text, outfile, outfile0, packages, valid_packages, ret,
                   requests, responses, nreads, nwrites, run, earlier>>

\* validate_package(pkg) was false: on to the next pkg
Skip ==
    /\ pc = "validated"
    /\ ~ret
    /\ i' = i + 1
    /\ pc' = "loop"
    /\ UNCHANGED <<text, outfile, outfile0, packages, valid_packages, ret,
                   printed, requests, responses, nreads, nwrites, run, earlier>>

\* a write that opens the file for appending
WriteOutputAppending ==
    /\ pc = "loop"
    /\ i > Len(packages)
    /\ outfile' = [exists |-> TRUE,
                   content |-> outfile.content \o Join(valid_packages)]
    /\ nwrites' = nwrites + 1
    /\ pc' = "done"
    /\ UNCHANGED <<text, outfile0, packages, valid_packages, i, ret, printed,
                   requests, responses, nreads, run, earlier>>

\* ....write_text('\n'.join(valid_packages), encoding="utf-8")
WriteOutput ==
    /\ pc = "loop"
    /\ i > Len(packages)
    /\ outfile' = [exists |-> TRUE, content |-> Join(valid_packages)]
    /\ nwrites' = nwrites + 1
    /\ pc' = "done"
    /\ UNCHANGED <<text, outfile0, packages, valid_packages, i, ret, printed,
                   requests, responses, nreads, run, earlier>>

Next ==
    \/ ReadInput
    \/ FetchStart
    \/ FetchReturn
    \/ PrintPkg
    \/ AppendValid
    \/ Skip
    \/ WriteOutput

Spec == Init /\ [][Next]_vars

----------------------------------------------------------------------------
(* The script run again on the same input against an unchanged registry.  *)

\* every lookup made so far, by earlier runs and by this one
AllRequests == earlier.requests \o requests
AllResponses == earlier.responses \o responses

\* the registry answers a name it was asked about before as it did then
FetchReturnStable ==
    /\ pc = "fetching"
    /\ \E o \in Outcomes :
          /\ CanAnswer(Last(requests), o)
          /\ \A j \in 1..Len(AllResponses) :
                AllRequests[j] = Last(requests) => AllResponses[j] = o
          /\ Returned(o)

\* the process has ended and the script is started again: a fresh interpreter,
\* the two files as the last run left them
Rerun ==
    /\ pc \in {"done", "aborted"}
    /\ run < MaxRuns
    /\ earlier' = [pc |-> pc, outfile |-> outfile,
                   requests |-> AllRequests, responses |-> AllResponses]
    /\ run' = run + 1
    /\ pc' = "start"
    /\ packages' = << >>
    /\ valid_packages' = << >>
    /\ i' = 1
    /\ ret' = FALSE
    /\ printed' = << >>
    /\ requests' = << >>
    /\ responses' = << >>
    /\ nreads' = 0
    /\ nwrites' = 0
    /\ UNCHANGED <<text, outfile, outfile0>>

NextRerun ==
    \/ ReadInput
    \/ FetchStart
    \/ FetchReturnStable
    \/ PrintPkg
    \/ AppendValid
    \/ Skip
    \/ WriteOutput
    \/ Rerun

SpecRerun == Init /\ [][NextRerun]_vars

----------------------------------------------------------------------------
(* Vocabulary of the properties. *)

\* the elements of s at the positions in I, in the order of s
RECURSIVE SelectFrom(_, _, _)
SelectFrom(s, I, k) ==
    IF k > Len(s) THEN << >>
    ELSE IF k \in I THEN <<s[k]>> \o SelectFrom(s, I, k + 1)
    ELSE SelectFrom(s, I, k + 1)

SelectIdx(s, I) == SelectFrom(s, I, 1)

\* t is s with some occurrences dropped
IsSubseq(t, s) == \E I \in SUBSET (1..Len(s)) : SelectIdx(s, I) = t

\* a registry record with strictly more than one release
MoreThanOneRelease(o) == o.kind = "record" /\ o.n > 1

\* the lookup of the current pkg has come back
LookupEnded == pc \in {"validated", "aborted"}

----------------------------------------------------------------------------
(* C1: at every point of the run the accumulated valid-package list is a   *)
(* subsequence of the input list (same relative order, nothing inserted,   *)
(* no name more often than in the input), and so are the lines of the      *)
(* file once it has been written.                                          *)
C1_OutputIsSubsequence ==
    /\ IsSubseq(valid_packages, packages)
    /\ nwrites > 0 => IsSubseq(SplitLines(outfile.content), packages)

C1_Witness ==
    /\ pc = "done"
    /\ Len(packages) = 3
    /\ packages[1] # packages[3]
    /\ valid_packages = <<packages[1], packages[3]>>
    /\ SplitLines(outfile.content) = valid_packages

(* C2: validate_package returns true exactly when the fetched record has   *)
(* more than one release, and on a completed run the output holds exactly  *)
(* the occurrences whose record had two or more releases.                  *)
C2_IncludedIffMoreThanOneRelease ==
    /\ pc = "validated" => (ret <=> MoreThanOneRelease(Last(responses)))
    /\ pc = "done" =>
          /\ Len(responses) = Len(packages)
          /\ valid_packages =
                SelectIdx(packages, {j \in 1..Len(packages) :
                                        MoreThanOneRelease(responses[j])})
          /\ outfile.content = Join(valid_packages)

C2_Witness ==
    /\ pc = "done"
    /\ responses = <<Record(1), Record(2), Record(0)>>
    /\ valid_packages = <<packages[2]>>

(* C3: a "not found" answer makes validate_package return false: the run   *)
(* does not abort on it, the occurrence is left out of the output, every   *)
(* later name is still looked up and the output file is still written.     *)
C3_NotFoundIsExcludedNotFatal ==
    /\ (LookupEnded /\ Last(responses) = HttpError(404)) =>
          (pc = "validated" /\ ~ret)
    /\ (pc = "loop" /\ responses # << >> /\ Last(responses) = HttpError(404)) =>
          (ENABLED FetchStart \/ ENABLED WriteOutput)
    /\ pc = "done" =>
          /\ Len(responses) = Len(packages)
          /\ nwrites = 1
          /\ IsSubseq(valid_packages,
                      SelectIdx(packages, {j \in 1..Len(packages) :
                                              responses[j] # HttpError(404)}))

C3_Witness ==
    /\ pc = "done"
    /\ responses = <<Record(3), HttpError(404), Record(1)>>
    /\ valid_packages = <<packages[1]>>
    /\ outfile = [exists |-> TRUE, content |-> packages[1]]

\* the failures of a lookup that are not an HTTP error response
NotHttpFailure == {"url_error", "bad_json", "no_releases", "invalid_url"}

(* C4 as stated: of the lookups that fail, only the one answered "not      *)
(* found" is recovered as a false result; every other failure, an HTTP     *)
(* error of another status included, aborts the run.                       *)
C4_OnlyNotFoundRecovered ==
    (LookupEnded /\ Last(responses).kind # "record") =>
        (pc = "validated" <=> Last(responses) = HttpError(404))

(* C4 amended: every HTTP error response, whatever its status, is          *)
(* recovered as a false result; the failures that are not HTTP error       *)
(* responses (unreachable host, malformed JSON, no "releases" field, a    *)
(* URI urlopen refuses) leave validate_package uncaught and end the run,   *)
(* which then writes nothing.                                              *)
C4_EveryHttpErrorRecovered ==
    /\ LookupEnded =>
          /\ Last(responses).kind = "http_error" => (pc = "validated" /\ ~ret)
          /\ Last(responses).kind \in NotHttpFailure
                => pc = "aborted"
          /\ pc = "aborted" =>
                Last(responses).kind \in NotHttpFailure
    /\ pc = "aborted" => (~ENABLED Next /\ nwrites = 0)

C4_Witness ==
    /\ pc = "done"
    /\ Len(responses) = 2
    /\ responses[1] = HttpError(500)
    /\ responses[2] = Record(2)
    /\ valid_packages = <<packages[2]>>

(* C5: the output file is written at most once, only after the lookup of   *)
(* the last name has returned; an aborted run has not touched the file; a  *)
(* completed run has replaced its content by the valid names joined by     *)
(* newlines.                                                               *)
C5_WrittenOnceAtTheEnd ==
    /\ nwrites <= 1
    /\ nwrites = 0 => outfile = outfile0
    /\ nwrites = 1 =>
          /\ pc = "done"
          /\ Len(responses) = Len(packages)
          /\ outfile = [exists |-> TRUE, content |-> Join(valid_packages)]
    /\ pc = "aborted" => nwrites = 0
    /\ pc = "done" => nwrites = 1

C5_Witness ==
    /\ pc = "done"
    /\ outfile0.content # << >>
    /\ Len(valid_packages) = 2
    /\ outfile.content = valid_packages[1] \o <<"\n">> \o valid_packages[2]

(* C6: one sequential pass. The input is read once, completely, before the *)
(* first fetch; the fetches are the input lines in order, one per line,    *)
(* never two outstanding; no fetch follows the write.                      *)
C6_State ==
    /\ nreads <= 1
    /\ (pc = "start") <=> (nreads = 0)
    /\ nreads = 1 => packages = SplitLines(text)
    /\ requests # << >> => nreads = 1
    /\ Len(requests) <= Len(packages)
    /\ \A j \in 1..Len(requests) : requests[j] = JsonUri(packages[j])
    /\ Len(requests) = Len(responses) + (IF pc = "fetching" THEN 1 ELSE 0)
    /\ pc = "done" => Len(requests) = Len(packages)

C6_Step ==
    /\ requests' # requests =>
          /\ Len(responses) = Len(requests)
          /\ requests' = Append(requests, JsonUri(packages[Len(requests) + 1]))
          /\ nwrites = 0
    /\ nreads' # nreads => requests = << >>
    /\ nwrites = 1 => requests' = requests

C6_SingleSequentialPass == [](C6_State) /\ [][C6_Step]_vars

C6_Witness ==
    /\ pc = "done"
    /\ Len(packages) = 2
    /\ packages[1] = packages[2]
    /\ packages[1] # << >>
    /\ requests = <<JsonUri(packages[1]), JsonUri(packages[1])>>

(* C7: a second run on the same input, against a registry that answers     *)
(* each name as before, ends as the previous run did and leaves the same   *)
(* output file, whatever the file held before.                             *)
C7_RerunGivesSameResult ==
    (run > 1 /\ pc \in {"done", "aborted"}) =>
        (pc = earlier.pc /\ outfile = earlier.outfile)

C7_Witness ==
    /\ run = 2
    /\ pc = "done"
    /\ outfile0.content # << >>
    /\ valid_packages # << >>
    /\ outfile.content = Join(valid_packages)

(* C8: on an empty input the run completes without error, fetches nothing, *)
(* prints nothing and writes an empty output file.                         *)
C8_EmptyInput ==
    text = << >> =>
        /\ pc \in {"start", "loop", "done"}
        /\ pc = "loop" => ENABLED WriteOutput
        /\ requests = << >>
        /\ printed = << >>
        /\ pc = "done" => outfile = [exists |-> TRUE, content |-> << >>]

C8_Witness ==
    /\ text = << >>
    /\ pc = "done"
    /\ outfile0.content # << >>
    /\ outfile = [exists |-> TRUE, content |-> << >>]

(* C9 as stated: every name looked up or written is its input line trimmed *)
(* of surrounding whitespace, and no lookup is made for an empty name.     *)
C9_NamesTrimmedNonEmpty ==
    /\ \A j \in 1..Len(requests) :
          /\ requests[j] = JsonUri(Trim(packages[j]))
          /\ packages[j] # << >>
    /\ \A j \in 1..Len(valid_packages) :
          valid_packages[j] = Trim(valid_packages[j])

(* C9 amended: the names are the lines of the input in order exactly as    *)
(* splitlines cuts them: the line break is removed and nothing else. A     *)
(* line with leading or trailing spaces is looked up with them in the URI, *)
(* and that lookup ends the run, so no name written carries whitespace; a  *)
(* blank line is looked up as an empty name.                               *)
C9_NamesAreUntrimmedLines ==
    pc # "start" =>
        /\ text \in {Join(packages), Join(packages) \o <<"\n">>}
        /\ \A j \in 1..Len(packages) :
              \A k \in 1..Len(packages[j]) : packages[j][k] \notin LineBoundary
        /\ \A j \in 1..Len(requests) : requests[j] = JsonUri(packages[j])
        /\ (LookupEnded /\ packages[i] # Trim(packages[i])) => pc = "aborted"
        /\ \A j \in 1..Len(valid_packages) :
              valid_packages[j] = Trim(valid_packages[j])

C9_Witness ==
    /\ pc = "aborted"
    /\ text = <<"\n", " ", "a">>
    /\ requests = <<JsonUri(<< >>), JsonUri(<<" ", "a">>)>>
    /\ responses = <<Record(2), InvalidUrl>>
    /\ valid_packages = << << >> >>

(* C10: a name is printed exactly when its validation returned true, once  *)
(* per accepted occurrence and before the next fetch; the printed names    *)
(* are the valid list, or that list plus the name printed and not yet      *)
(* appended; on a completed run they are the content of the output file.   *)
C10_PrintedTracksValid ==
    /\ printed = IF pc = "printed"
                 THEN Append(valid_packages, packages[i])
                 ELSE valid_packages
    /\ printed =
          SelectIdx(packages,
                    {j \in 1..Len(responses) :
                        /\ MoreThanOneRelease(responses[j])
                        /\ ~(pc = "validated" /\ j = Len(responses))})
    /\ pc = "done" => Join(printed) = outfile.content

C10_Witness ==
    /\ pc = "printed"
    /\ Len(printed) = 2
    /\ Len(valid_packages) = 1
    /\ responses = <<Record(2), Record(1), Record(3)>>

====
